---- MODULE Spec2Model ----
(***************************************************************************)
(* A model of the request pipeline of bob: the replayable body buffer      *)
(* (src/src/modules/payload.rs), the module chain that walks its links     *)
(* (src/src/modules/service.rs), the assembly of a virtual server and the  *)
(* start of its listeners (src/bob/src/main.rs), the SNI resolver          *)
(* (src/src/tls.rs) and the URL path parser                                *)
(* (src/src/modules/utils/path_buf.rs).                                    *)
(*                                                                         *)
(* Each part has its own specification over the variables it uses; the     *)
(* other variables stay at their idle value.                               *)
(***************************************************************************)
EXTENDS Integers, Sequences, FiniteSets, TLC

VARIABLES
    pb,     \* the PayloadBuffer shared through a PayloadRef
    rd,     \* what the reader of the buffer has been handed
    ch,     \* one ModuleService::call: its position and what it observed
    wr,     \* one assembled middleware stack and the request going through it
    sv,     \* the server: configuration, startup, sockets, routed requests
    pp,     \* one PathBufWrap::parse_path call
    dv,     \* one directive: its chain as constructed and a request in it
    hd,     \* one call of a handler (redirect, reverse proxy) or of a helper
    ms,     \* one call of the mod-security middleware
    cl      \* one command line with the configuration built from it

vars == <<pb, rd, ch, wr, sv, pp, dv, hd, ms, cl>>

Idle == [idle |-> TRUE]

(***************************************************************************)
(* Bounds of the model.                                                    *)
(***************************************************************************)
MaxChunks == 3        \* chunks the request stream delivers
MaxChunkLen == 2      \* bytes in one chunk
MaxBufferSize == 3    \* largest body_buffer_size tried
MaxLinks == 3         \* links of a chain
MaxMiddleware == 3    \* server-global middleware of one server
MaxServers == 2       \* ServerConfigs of a configuration file

(***************************************************************************)
(* Helpers on sequences.                                                   *)
(***************************************************************************)
RECURSIVE Flatten(_)
Flatten(ss) == IF ss = <<>> THEN <<>> ELSE Head(ss) \o Flatten(Tail(ss))

RECURSIVE SumSeq(_)
SumSeq(s) == IF s = <<>> THEN 0 ELSE Head(s) + SumSeq(Tail(s))

IsPrefix(p, s) == Len(p) <= Len(s) /\ SubSeq(s, 1, Len(p)) = p

(***************************************************************************)
(* The request stream: a sequence of chunks followed by the end of the     *)
(* stream.  The buffer never looks at a byte, so each byte carries its     *)
(* position in the body: a lost, repeated or reordered byte shows.         *)
(***************************************************************************)
ChunkLens == UNION {[1..k -> 0..MaxChunkLen] : k \in 0..MaxChunks}

MkStream(lens) ==
    [k \in 1..Len(lens) |->
        [j \in 1..lens[k] |-> SumSeq(SubSeq(lens, 1, k - 1)) + j]]

BufferSizes == 0..MaxBufferSize

(***************************************************************************)
(* PayloadBuffer (payload.rs).                                             *)
(***************************************************************************)
PayloadBuffer_new(stream, buffer_size) ==
    [stream |-> stream, buf |-> <<>>, eof |-> FALSE, overflow |-> FALSE,
     cursor |-> 0, body_buffer_size |-> buffer_size]

reset_stream_keep(p) == p

reset_stream(p) == [p EXCEPT !.cursor = 0]

\* buf.clone().split_to(n) is the first n bytes of the buffer.
split_to(buf, n) == SubSeq(buf, 1, n)

NoData == [some |-> FALSE, data |-> <<>>]

read_buffered(p) ==
    IF p.cursor < Len(p.buf)
    THEN LET data == split_to(p.buf, Len(p.buf) - p.cursor)
         IN  [pb |-> [p EXCEPT !.cursor = @ + Len(data)],
              ret |-> [some |-> TRUE, data |-> data]]
    ELSE [pb |-> p, ret |-> NoData]

Item(tag, bytes) == [tag |-> tag, bytes |-> bytes]

\* A poll that appends every chunk of the stream, whatever the buffer holds.
poll_next_nocap(p) ==
    LET rb == read_buffered(p) IN
    IF rb.ret.some THEN [pb |-> rb.pb, item |-> Item("data", rb.ret.data)]
    ELSE IF p.eof THEN [pb |-> p, item |-> Item("eof", <<>>)]
    ELSE IF p.stream = <<>>
         THEN [pb |-> [p EXCEPT !.eof = TRUE], item |-> Item("eof", <<>>)]
    ELSE [pb |-> [p EXCEPT !.stream = Tail(@), !.buf = @ \o Head(p.stream),
                           !.cursor = @ + Len(Head(p.stream))],
          item |-> Item("data", Head(p.stream))]

\* <PayloadRef as Stream>::poll_next: the buffer after the poll and the item
\* handed to the caller.
poll_next(p) ==
    LET rb == read_buffered(p) IN
    IF rb.ret.some THEN [pb |-> rb.pb, item |-> Item("data", rb.ret.data)]
    ELSE IF p.eof THEN [pb |-> p, item |-> Item("eof", <<>>)]
    ELSE IF p.overflow THEN [pb |-> p, item |-> Item("overflow", <<>>)]
    ELSE IF p.stream = <<>>
         THEN [pb |-> [p EXCEPT !.eof = TRUE], item |-> Item("eof", <<>>)]
    ELSE LET data == Head(p.stream)
             q == [p EXCEPT !.stream = Tail(@)]
         IN  IF q.cursor + Len(data) > q.body_buffer_size
             THEN [pb |-> [q EXCEPT !.overflow = TRUE],
                   item |-> Item("overflow", <<>>)]
             ELSE [pb |-> [q EXCEPT !.buf = @ \o data,
                                    !.cursor = @ + Len(data)],
                   item |-> Item("data", data)]

(***************************************************************************)
(* The buffer on its own: a reader that polls the PayloadRef and a holder  *)
(* that resets it, in any order.  rd.got is what the reader was handed     *)
(* since the last reset, rd.last the outcome of its latest poll, and       *)
(* rd.prevGot / rd.prevLast the same for the pass before the last reset.   *)
(***************************************************************************)
InitReader(lens, cap) ==
    [body |-> Flatten(MkStream(lens)), cap |-> cap,
     got |-> <<>>, last |-> "none", first |-> TRUE,
     prevGot |-> <<>>, prevLast |-> "none"]

BufInit ==
    /\ \E lens \in ChunkLens, cap \in BufferSizes :
          /\ pb = PayloadBuffer_new(MkStream(lens), cap)
          /\ rd = InitReader(lens, cap)
    /\ ch = Idle /\ wr = Idle /\ sv = Idle /\ pp = Idle
    /\ dv = Idle /\ hd = Idle /\ ms = Idle /\ cl = Idle

BufRead ==
    /\ LET r == poll_next(pb) IN
          /\ pb' = r.pb
          /\ rd' = [rd EXCEPT !.got = @ \o r.item.bytes, !.last = r.item.tag]
    /\ UNCHANGED <<ch, wr, sv, pp, dv, hd, ms, cl>>

BufReset ==
    /\ pb' = reset_stream(pb)
    /\ rd' = [rd EXCEPT !.got = <<>>, !.last = "none", !.first = FALSE,
                        !.prevGot = rd.got, !.prevLast = rd.last]
    /\ UNCHANGED <<ch, wr, sv, pp, dv, hd, ms, cl>>

BufNext == BufRead \/ BufReset

SpecBuffer == BufInit /\ [][BufNext]_vars

(***************************************************************************)
(* C3: for a body of total size n <= soft_cap, split into chunks in any    *)
(* way, two drains to EOF with a Reset between them hand over the same     *)
(* bytes, the original body; for n > soft_cap the first drain never        *)
(* reaches EOF and ends in the overflow error once the stream is used up.  *)
(***************************************************************************)
C3_DrainResetDrain ==
    /\ (Len(rd.body) <= rd.cap /\ ~rd.first
            /\ rd.prevLast = "eof" /\ rd.last = "eof")
        => (rd.got = rd.prevGot /\ rd.got = rd.body)
    /\ (Len(rd.body) <= rd.cap /\ rd.first /\ rd.last = "eof")
        => rd.got = rd.body
    /\ (Len(rd.body) > rd.cap /\ rd.first)
        => (rd.last # "eof" /\ (pb.stream = <<>> => rd.last = "overflow"))

C3_Witness ==
    /\ Len(rd.body) >= 2 /\ Len(rd.body) <= rd.cap
    /\ ~rd.first /\ rd.prevLast = "eof" /\ rd.last = "eof"
    /\ rd.prevGot = rd.body /\ rd.got = rd.body

(***************************************************************************)
(* C4: once the overflow flag is set, every further read fails with the    *)
(* overflow error, after any sequence of Read and Reset: the latest read   *)
(* made while the flag is set never returned data nor EOF.                 *)
(***************************************************************************)
C4_OverflowSticky == pb.overflow => rd.last \in {"none", "overflow"}

(***************************************************************************)
(* ModuleService::call (service.rs): the walk over the links of a chain.   *)
(* A link is any HttpService: called with a request it polls the payload   *)
(* any number of times and then returns Ok(response) or Err.               *)
(***************************************************************************)
NOT_FOUND == 404

Heads == {"GET /a", "POST /b"}

Response(status, content_type, body) ==
    [ok |-> TRUE, status |-> status, content_type |-> content_type,
     body |-> body]

\* Err(actix_web::Error) of a link, passed on by the `?` of the loop.
ErrResult == [ok |-> FALSE, status |-> 0, content_type |-> "", body |-> ""]

NoResult == [ok |-> FALSE, status |-> -1, content_type |-> "", body |-> ""]

\* utils.rs default_response, and the tail of ModuleService::call.
default_response ==
    Response(NOT_FOUND, "text/plain; charset=utf-8", "Not Found")

\* What a link may answer: the statuses of a hit, a miss and an upstream
\* failure, with the body of the default response or one of its own.
LinkResults ==
    {Response(st, c[1], c[2]) :
        st \in {200, NOT_FOUND, 502},
        c \in {<<"text/plain; charset=utf-8", "Not Found">>,
               <<"text/html", "page">>}}
    \cup {ErrResult}

falls_through_any_error(res) == res.ok /\ res.status >= 400

\* service.rs:61, negated: the link's response is not returned and the next
\* link is tried.
falls_through(res) == res.ok /\ res.status = NOT_FOUND

ChainStart(n, lens, cap, head) ==
    [modules |-> n, body_buffer_size |-> cap, head |-> head,
     body |-> Flatten(MkStream(lens)),
     pc |-> "start", single |-> FALSE, idx |-> 0,
     heads |-> <<>>, returned |-> <<>>, lastRes |-> NoResult,
     got |-> <<>>, last |-> "none", result |-> NoResult]

\* Before the call the payload is the one-shot request stream.
RawPayload(lens) == PayloadBuffer_new(MkStream(lens), 0)

\* A poll of the request's own payload (no PayloadBuffer in between).
raw_poll(p) ==
    IF p.stream = <<>>
    THEN [pb |-> [p EXCEPT !.eof = TRUE], item |-> Item("eof", <<>>)]
    ELSE [pb |-> [p EXCEPT !.stream = Tail(@)],
          item |-> Item("data", Head(p.stream))]

\* service.rs:45-59: the single-module shortcut, or the buffer creation and
\* the call of the first module.
ModuleService_call ==
    /\ ch.pc = "start"
    /\ IF ch.modules = 1
       THEN /\ ch' = [ch EXCEPT !.pc = "in_module", !.single = TRUE,
                                !.idx = 1, !.heads = <<ch.head>>]
            /\ pb' = pb
       ELSE /\ pb' = PayloadBuffer_new(pb.stream, ch.body_buffer_size)
            /\ ch' = [ch EXCEPT !.pc = "in_module", !.idx = 1,
                                !.heads = <<ch.head>>]
    /\ UNCHANGED <<rd, wr, sv, pp, dv, hd, ms, cl>>

\* The called module polls its payload.
ModulePoll ==
    /\ ch.pc = "in_module"
    /\ LET r == IF ch.single THEN raw_poll(pb) ELSE poll_next(pb) IN
          /\ pb' = r.pb
          /\ ch' = [ch EXCEPT !.got = @ \o r.item.bytes, !.last = r.item.tag]
    /\ UNCHANGED <<rd, wr, sv, pp, dv, hd, ms, cl>>

\* service.rs:49 and 60-72: the module returns.
ModuleReturn ==
    /\ ch.pc = "in_module"
    /\ \E res \in LinkResults :
          LET c == [ch EXCEPT !.returned = Append(@, res.status),
                              !.lastRes = res]
          IN
          IF ch.single \/ ~res.ok \/ ~falls_through(res)
          THEN /\ ch' = [c EXCEPT !.pc = "done", !.result = res]
               /\ pb' = pb
          ELSE /\ pb' = reset_stream(pb)
               /\ IF ch.idx < ch.modules
                  THEN ch' = [c EXCEPT !.idx = @ + 1,
                                       !.heads = Append(@, ch.head),
                                       !.got = <<>>, !.last = "none"]
                  ELSE ch' = [c EXCEPT !.pc = "done",
                                       !.result = default_response]
    /\ UNCHANGED <<rd, wr, sv, pp, dv, hd, ms, cl>>

ChainInit ==
    /\ \E n \in 1..MaxLinks, lens \in ChunkLens, cap \in BufferSizes,
          head \in Heads :
          /\ ch = ChainStart(n, lens, cap, head)
          /\ pb = RawPayload(lens)
    /\ rd = Idle /\ wr = Idle /\ sv = Idle /\ pp = Idle
    /\ dv = Idle /\ hd = Idle /\ ms = Idle /\ cl = Idle

ChainNext == ModuleService_call \/ ModulePoll \/ ModuleReturn

Spec == ChainInit /\ [][ChainNext]_vars

(***************************************************************************)
(* C1: in a chain of several links, link i+1 is invoked if and only if     *)
(* link i returned a status of its next-on set ({404}); it is invoked with *)
(* the same request head and a body replayed from its first byte; once a   *)
(* link answers outside the set (or fails) that result is returned and no  *)
(* later link is invoked.                                                  *)
(***************************************************************************)
NextOn == {404}

C1_FallThrough ==
    ch.modules >= 2 =>
        LET k == Len(ch.heads) IN
        /\ \A i \in 2..k : ch.returned[i - 1] \in NextOn
        /\ \A i \in 1..k : ch.heads[i] = ch.head
        /\ IsPrefix(ch.got, ch.body)
        /\ (ch.last = "eof" => ch.got = ch.body)
        /\ ch.pc = "done" =>
              /\ Len(ch.returned) = k
              /\ IF ch.returned[k] \in NextOn
                 THEN k = ch.modules
                 ELSE ch.result = ch.lastRes

C1_Witness ==
    /\ ch.modules >= 2 /\ ch.pc = "done" /\ Len(ch.heads) = 2
    /\ ch.returned = <<404, 200>> /\ ch.result.status = 200
    /\ Len(ch.body) >= 2 /\ ch.got = ch.body

(***************************************************************************)
(* C2: for every chain, one link or several, when every link returned a    *)
(* fall-through status the chain answers 404 Not Found with Content-Type   *)
(* text/plain and the body "Not Found", whatever the last link answered.   *)
(***************************************************************************)
C2_AllFallThrough ==
    (/\ ch.pc = "done"
     /\ Len(ch.returned) = ch.modules
     /\ \A i \in 1..ch.modules : ch.returned[i] \in NextOn)
    => /\ ch.result.status = 404
       /\ ch.result.content_type = "text/plain; charset=utf-8"
       /\ ch.result.body = "Not Found"

(***************************************************************************)
(* assemble_chain (bob/src/main.rs): the server-global middleware, the     *)
(* sanitizer and the logger around the chain, and one request through the  *)
(* assembled stack.                                                        *)
(*                                                                         *)
(* A stack lists its wrappers from the innermost (next to the chain) to    *)
(* the outermost.  Middleware::wrap hands the chain to                     *)
(* actix_chain::Wrappable::wrap_with, which, as every actix wrap, puts the *)
(* new middleware around what it is given: the wrapper added last runs     *)
(* first.  A configured middleware is named by its index in the list.      *)
(***************************************************************************)
\* A wrapper: the i-th configured middleware, the sanitizer or the logger.
ConfiguredMw(i) == [kind |-> "middleware", index |-> i]
SANITIZER == [kind |-> "sanitizer", index |-> 0]
LOGGER == [kind |-> "logger", index |-> 0]

\* Option<bool>::unwrap_or(true), main.rs:107.
unwrap_or_true(opt) == IF opt = "none" THEN TRUE ELSE opt = "true"

\* Middleware::wrap / Chain::wrap: the value wrapped by one more layer.
wrap(stack, m) == Append(stack, m)

RECURSIVE fold_wrap(_, _, _)
fold_wrap(stack, k, i) ==
    IF i > k THEN stack ELSE fold_wrap(wrap(stack, ConfiguredMw(i)), k, i + 1)

\* main.rs:103-114.
assemble_wrappers(cfg) ==
    LET c1 == fold_wrap(<<>>, cfg.middleware, 1)
        c2 == IF unwrap_or_true(cfg.sanitize_errors)
              THEN wrap(c1, SANITIZER) ELSE c1
        c3 == IF ~cfg.logging_disable THEN wrap(c2, LOGGER) ELSE c2
    IN  c3

WrapConfigs ==
    [middleware : 0..MaxMiddleware,
     sanitize_errors : {"none", "true", "false"},
     logging_disable : BOOLEAN]

WrapInit ==
    /\ \E cfg \in WrapConfigs :
          wr = [config |-> cfg, stack |-> <<>>, pc |-> "assemble",
                depth |-> 0, pre |-> <<>>, post |-> <<>>,
                handled |-> FALSE]
    /\ pb = Idle /\ rd = Idle /\ ch = Idle /\ sv = Idle /\ pp = Idle
    /\ dv = Idle /\ hd = Idle /\ ms = Idle /\ cl = Idle

\* HttpServer::new's factory builds the chain of the server.
assemble_chain ==
    /\ wr.pc = "assemble"
    /\ LET st == assemble_wrappers(wr.config) IN
          wr' = [wr EXCEPT !.stack = st, !.pc = "in", !.depth = Len(st)]
    /\ UNCHANGED <<pb, rd, ch, sv, pp, dv, hd, ms, cl>>

\* The request reaches the next wrapper inwards: its pre-handler part runs
\* and it calls what it wraps.
WrapEnter ==
    /\ wr.pc = "in" /\ wr.depth >= 1
    /\ wr' = [wr EXCEPT !.pre = Append(@, wr.stack[wr.depth]),
                        !.depth = @ - 1]
    /\ UNCHANGED <<pb, rd, ch, sv, pp, dv, hd, ms, cl>>

\* A configured middleware answers by itself (a refused credential, a
\* filtered address, a spent rate limit): nothing it wraps is called.
WrapReject ==
    /\ wr.pc = "in" /\ wr.depth >= 1
    /\ wr.stack[wr.depth].kind = "middleware"
    /\ wr' = [wr EXCEPT !.pre = Append(@, wr.stack[wr.depth]),
                        !.post = Append(@, wr.stack[wr.depth]),
                        !.pc = "out", !.depth = @ + 1]
    /\ UNCHANGED <<pb, rd, ch, sv, pp, dv, hd, ms, cl>>

\* The chain itself answers.
WrapHandler ==
    /\ wr.pc = "in" /\ wr.depth = 0
    /\ wr' = [wr EXCEPT !.handled = TRUE, !.pc = "out", !.depth = 1]
    /\ UNCHANGED <<pb, rd, ch, sv, pp, dv, hd, ms, cl>>

\* The response passes the next wrapper outwards: its post-handler part.
WrapExit ==
    /\ wr.pc = "out"
    /\ IF wr.depth > Len(wr.stack)
       THEN wr' = [wr EXCEPT !.pc = "done"]
       ELSE wr' = [wr EXCEPT !.post = Append(@, wr.stack[wr.depth]),
                             !.depth = @ + 1]
    /\ UNCHANGED <<pb, rd, ch, sv, pp, dv, hd, ms, cl>>

WrapNext ==
    assemble_chain \/ WrapEnter \/ WrapReject \/ WrapHandler \/ WrapExit

SpecWrap == WrapInit /\ [][WrapNext]_vars

\* The configured middleware among the events of a trace.
RECURSIVE Configured(_)
Configured(t) ==
    IF t = <<>> THEN <<>>
    ELSE IF Head(t).kind # "middleware" THEN Configured(Tail(t))
    ELSE <<Head(t).index>> \o Configured(Tail(t))

(***************************************************************************)
(* C5: for the server-global list [m1, ..., mk] as written, m1 is the      *)
(* outermost wrapper: on a request that reaches the chain the pre-handler  *)
(* parts run in the order m1, ..., mk and the post-handler parts in the    *)
(* order mk, ..., m1.                                                      *)
(***************************************************************************)
C5_OuterFirst ==
    (wr.pc = "done" /\ wr.handled) =>
        LET k == wr.config.middleware IN
        /\ Configured(wr.pre) = [i \in 1..k |-> i]
        /\ Configured(wr.post) = [i \in 1..k |-> k + 1 - i]

(***************************************************************************)
(* Glob patterns and names: sequences of characters.  glob::Pattern        *)
(* matches `*` against any run of characters, `?` against one character    *)
(* and any other character against itself.                                 *)
(***************************************************************************)
RECURSIVE glob_matches(_, _)
glob_matches(pat, name) ==
    IF pat = <<>> THEN name = <<>>
    ELSE IF Head(pat) = "*"
         THEN \/ glob_matches(Tail(pat), name)
              \/ (name # <<>> /\ glob_matches(pat, Tail(name)))
    ELSE IF Head(pat) = "?"
         THEN name # <<>> /\ glob_matches(Tail(pat), Tail(name))
    ELSE /\ name # <<>>
         /\ Head(name) = Head(pat)
         /\ glob_matches(Tail(pat), Tail(name))

\* The names a client may send as Host or as SNI.
Names == {<<>>, <<"a">>, <<"b">>, <<"a", "b">>}

\* A header or an extension that may be absent.
Some(v) == [some |-> TRUE, v |-> v]
None == [some |-> FALSE, v |-> <<>>]
OptNames == {Some(n) : n \in Names} \cup {None}

\* server_name lists: none, one exact name, the catch-all pattern, and two
\* patterns of which a name may match one and not the other.
NameLists ==
    {<<>>, <<<<"a">>>>, <<<<"*">>>>, <<<<"a", "*">>, <<"?">>>>}

(***************************************************************************)
(* ListenCfg and ServerConfig (bob/src/config/mod.rs).                     *)
(***************************************************************************)
ListenCfg(port, host, ssl) == [port |-> port, host |-> host, ssl |-> ssl]

\* ListenCfg::host and ListenCfg::address.
ListenCfg_host(l) == IF l.host = "none" THEN "0.0.0.0" ELSE l.host
address(l) == <<ListenCfg_host(l), l.port>>

ListenLists ==
    {<<ListenCfg(80, "none", FALSE)>>,
     <<ListenCfg(80, "0.0.0.0", FALSE)>>,
     <<ListenCfg(443, "none", TRUE)>>,
     <<ListenCfg(80, "none", TRUE)>>,
     <<ListenCfg(80, "none", FALSE), ListenCfg(443, "none", TRUE)>>,
     <<ListenCfg(80, "none", FALSE), ListenCfg(80, "none", TRUE)>>}

ServerConfigs ==
    [disable : BOOLEAN, listen : ListenLists, server_name : NameLists]

Configs == UNION {[1..n -> ServerConfigs] : n \in 1..MaxServers}

(***************************************************************************)
(* TlsEntry and TlsResolver (tls.rs).                                      *)
(***************************************************************************)
TlsEntry_matches_all(entry, name) ==
    \A i \in DOMAIN entry.domains : glob_matches(entry.domains[i], name)

TlsEntry_matches(entry, name) ==
    \/ entry.domains = <<>>
    \/ \E i \in DOMAIN entry.domains : glob_matches(entry.domains[i], name)

\* The entries one server adds: one per listen binding with ssl, in order.
RECURSIVE ServerEntries(_, _, _)
ServerEntries(srv, s, j) ==
    IF j > Len(srv.listen) THEN <<>>
    ELSE (IF srv.listen[j].ssl
          THEN <<[domains |-> srv.server_name,
                  key |-> [server |-> s, listen |-> j]]>>
          ELSE <<>>)
         \o ServerEntries(srv, s, j + 1)

RECURSIVE TlsResolver_new_from(_, _)
TlsResolver_new_from(config, s) ==
    IF s > Len(config) THEN <<>>
    ELSE ServerEntries(config[s], s, 1) \o TlsResolver_new_from(config, s + 1)

TlsResolver_new(config) == TlsResolver_new_from(config, 1)

NoKey == [found |-> FALSE, key |-> [server |-> 0, listen |-> 0]]

\* Iterator::find over the entries, then the entry's key.
RECURSIVE find_entry(_, _)
find_entry(entries, name) ==
    IF entries = <<>> THEN NoKey
    ELSE IF TlsEntry_matches(Head(entries), name)
         THEN [found |-> TRUE, key |-> Head(entries).key]
         ELSE find_entry(Tail(entries), name)

\* client_hello.server_name().unwrap_or_default()
resolve(entries, sni) == find_entry(entries, IF sni.some THEN sni.v ELSE <<>>)

(***************************************************************************)
(* The App of HttpServer::new (main.rs:133-139): one Chain per             *)
(* ServerConfig of the file, registered in the order of the file, each     *)
(* guarded by one DomainMatch per server_name (assemble_chain, 83-87).  A  *)
(* service is tried when all its guards accept the request.                *)
(***************************************************************************)
\* impl Guard for DomainMatch
DomainMatch_check(pat, host) == host.some /\ glob_matches(pat, host.v)

chain_guards_pass(srv, host) ==
    \A i \in DOMAIN srv.server_name :
        DomainMatch_check(srv.server_name[i], host)

RECURSIVE route_from(_, _, _)
route_from(config, host, s) ==
    IF s > Len(config) THEN 0
    ELSE IF chain_guards_pass(config[s], host) THEN s
    ELSE route_from(config, host, s + 1)

\* The index of the server whose chain answers; 0 for the App's default 404.
route(config, host) == route_from(config, host, 1)

(***************************************************************************)
(* main (main.rs:141-165): the plain listeners, the TLS configuration, the *)
(* TLS listeners, run.  A bind of an address this process already listens  *)
(* on fails (EADDRINUSE), and the `?` ends main.                           *)
(***************************************************************************)
\* .filter(|cfg| !cfg.disable).flat_map(|cfg| cfg.listen.iter())
\* .filter(|listen| listen.ssl.is_some() == tls).map(|addr| addr.address())
RECURSIVE listen_from(_, _, _, _)
listen_from(config, tls, s, j) ==
    IF s > Len(config) THEN <<>>
    ELSE IF config[s].disable \/ j > Len(config[s].listen)
         THEN listen_from(config, tls, s + 1, 1)
    ELSE (IF config[s].listen[j].ssl = tls
          THEN <<address(config[s].listen[j])>> ELSE <<>>)
         \o listen_from(config, tls, s, j + 1)

listen_addresses(config, tls) == listen_from(config, tls, 1, 1)

\* A fold whose binds succeed on an address that is already bound.
RECURSIVE try_fold_bind_reuse(_, _)
try_fold_bind_reuse(st, addrs) ==
    IF addrs = <<>> THEN st
    ELSE try_fold_bind_reuse([st EXCEPT !.binds = Append(@, Head(addrs)),
                                        !.sockets = @ \cup {Head(addrs)}],
                             Tail(addrs))

\* try_fold(server, |s, addr| s.bind(addr)): the binds made, the sockets
\* held and whether every bind succeeded.
RECURSIVE try_fold_bind(_, _)
try_fold_bind(st, addrs) ==
    IF addrs = <<>> \/ ~st.ok THEN st
    ELSE LET a == Head(addrs)
             called == [st EXCEPT !.binds = Append(@, a)]
         IN  IF a \in st.sockets
             THEN [called EXCEPT !.ok = FALSE]
             ELSE try_fold_bind([called EXCEPT !.sockets = @ \cup {a}],
                                Tail(addrs))

NoEvent ==
    [kind |-> "none", sock |-> <<"", 0>>, name |-> None, handled_by |-> 0,
     cert |-> NoKey]

ServerInit ==
    /\ \E config \in Configs :
          sv = [config |-> config, pc |-> "new", binds |-> <<>>,
                sockets |-> {}, tls_sockets |-> {}, resolver |-> <<>>,
                ev |-> NoEvent]
    /\ pb = Idle /\ rd = Idle /\ ch = Idle /\ wr = Idle /\ pp = Idle
    /\ dv = Idle /\ hd = Idle /\ ms = Idle /\ cl = Idle

bind_plain ==
    /\ sv.pc = "new"
    /\ LET r == try_fold_bind([binds |-> sv.binds, sockets |-> sv.sockets,
                               ok |-> TRUE],
                              listen_addresses(sv.config, FALSE))
       IN  sv' = [sv EXCEPT !.binds = r.binds, !.sockets = r.sockets,
                            !.pc = IF r.ok THEN "bound" ELSE "failed"]
    /\ UNCHANGED <<pb, rd, ch, wr, pp, dv, hd, ms, cl>>

build_tls_config ==
    /\ sv.pc = "bound"
    /\ sv' = [sv EXCEPT !.resolver = TlsResolver_new(sv.config),
                        !.pc = "tls_built"]
    /\ UNCHANGED <<pb, rd, ch, wr, pp, dv, hd, ms, cl>>

bind_rustls ==
    /\ sv.pc = "tls_built"
    /\ LET r == try_fold_bind([binds |-> sv.binds, sockets |-> sv.sockets,
                               ok |-> TRUE],
                              listen_addresses(sv.config, TRUE))
       IN  sv' = [sv EXCEPT !.binds = r.binds, !.sockets = r.sockets,
                            !.tls_sockets = r.sockets \ sv.sockets,
                            !.pc = IF r.ok THEN "ready" ELSE "failed"]
    /\ UNCHANGED <<pb, rd, ch, wr, pp, dv, hd, ms, cl>>

run ==
    /\ sv.pc = "ready"
    /\ sv' = [sv EXCEPT !.pc = "running"]
    /\ UNCHANGED <<pb, rd, ch, wr, pp, dv, hd, ms, cl>>

\* A TLS handshake on a TLS listener: ResolvesServerCert::resolve.
Handshake ==
    /\ sv.pc = "running"
    /\ \E sock \in sv.tls_sockets, sni \in OptNames :
          sv' = [sv EXCEPT !.ev = [kind |-> "handshake", sock |-> sock,
                                   name |-> sni, handled_by |-> 0,
                                   cert |-> resolve(sv.resolver, sni)]]
    /\ UNCHANGED <<pb, rd, ch, wr, pp, dv, hd, ms, cl>>

\* A request accepted on any listener is given to the one App.
Request ==
    /\ sv.pc = "running"
    /\ \E sock \in sv.sockets, host \in OptNames :
          sv' = [sv EXCEPT !.ev = [kind |-> "request", sock |-> sock,
                                   name |-> host,
                                   handled_by |-> route(sv.config, host),
                                   cert |-> NoKey]]
    /\ UNCHANGED <<pb, rd, ch, wr, pp, dv, hd, ms, cl>>

ServerNext ==
    bind_plain \/ build_tls_config \/ bind_rustls \/ run
        \/ Handshake \/ Request

SpecServer == ServerInit /\ [][ServerNext]_vars

\* The servers of the file that are not disabled.
Enabled(config) == {s \in DOMAIN config : ~config[s].disable}

\* A name matches a server_name list: one of its patterns matches it.
NameMatches(server_name, host) ==
    host.some /\ \E i \in DOMAIN server_name :
                    glob_matches(server_name[i], host.v)

SetMin(S) == CHOOSE x \in S : \A y \in S : x <= y

(***************************************************************************)
(* C6: a request is handled by the first enabled ServerConfig, in the      *)
(* order of the file, whose server_name list matches the Host or is empty  *)
(* (catch-all); by none when there is no such server.                      *)
(***************************************************************************)
C6_HostRouting ==
    sv.ev.kind = "request" =>
        LET M == {s \in Enabled(sv.config) :
                     \/ sv.config[s].server_name = <<>>
                     \/ NameMatches(sv.config[s].server_name, sv.ev.name)}
        IN  sv.ev.handled_by = IF M = {} THEN 0 ELSE SetMin(M)

(***************************************************************************)
(* C7: for a handshake with server name s (empty when the extension is     *)
(* absent) the resolver returns the key of the first entry, in the order   *)
(* of construction, whose guard list is empty or holds a glob matching s;  *)
(* it returns nothing, and the handshake is rejected, when no entry does.  *)
(***************************************************************************)
C7_SniResolution ==
    sv.ev.kind = "handshake" =>
        LET s == IF sv.ev.name.some THEN sv.ev.name.v ELSE <<>>
            M == {i \in DOMAIN sv.resolver :
                     \/ sv.resolver[i].domains = <<>>
                     \/ \E d \in DOMAIN sv.resolver[i].domains :
                           glob_matches(sv.resolver[i].domains[d], s)}
        IN  IF M = {}
            THEN ~sv.ev.cert.found
            ELSE /\ sv.ev.cert.found
                 /\ sv.ev.cert.key = sv.resolver[SetMin(M)].key

\* A handshake answered by the second entry: the first one, which has
\* guards, does not match the name.
C7_Witness ==
    /\ sv.ev.kind = "handshake" /\ sv.ev.name.some
    /\ Len(sv.resolver) >= 2
    /\ sv.resolver[1].domains # <<>>
    /\ sv.ev.cert.found /\ sv.ev.cert.key = sv.resolver[2].key

\* The (host, port) pairs of the listen lists of the enabled servers.
EnabledAddresses(config) ==
    UNION {{address(config[s].listen[j]) : j \in DOMAIN config[s].listen} :
              s \in Enabled(config)}

\* A pair that is declared both with and without TLS by enabled servers.
MixedTls(config) ==
    \E s, t \in Enabled(config) :
        \E i \in DOMAIN config[s].listen, j \in DOMAIN config[t].listen :
            /\ address(config[s].listen[i]) = address(config[t].listen[j])
            /\ config[s].listen[i].ssl # config[t].listen[j].ssl

(***************************************************************************)
(* C8: startup binds exactly one socket per distinct (host, port) of the   *)
(* listen lists of the enabled servers; servers that declare the same      *)
(* pair share the socket and startup succeeds.                             *)
(***************************************************************************)
C8_OneBindPerAddress ==
    (sv.pc \in {"running", "failed"} /\ ~MixedTls(sv.config)) =>
        /\ sv.pc = "running"
        /\ Len(sv.binds) = Cardinality(EnabledAddresses(sv.config))
        /\ {sv.binds[i] : i \in DOMAIN sv.binds}
              = EnabledAddresses(sv.config)

(***************************************************************************)
(* C10: a ServerConfig with disable = true is skipped: no listener is      *)
(* bound for it, no request is handled by its chain, and its TLS bindings  *)
(* add no entry to the SNI resolver.                                       *)
(***************************************************************************)
C10_DisabledSkipped ==
    \A s \in DOMAIN sv.config :
        sv.config[s].disable =>
            /\ \A i \in DOMAIN sv.binds :
                  sv.binds[i] \in EnabledAddresses(sv.config)
            /\ sv.ev.kind = "request" => sv.ev.handled_by # s
            /\ \A i \in DOMAIN sv.resolver : sv.resolver[i].key.server # s

(***************************************************************************)
(* File handler path translation: PathBufWrap::parse_path and the join     *)
(* with the configured root in FileService::call.  A URL path is a         *)
(* sequence of tokens; "%2F" is the percent-encoded slash.  A PathBuf is   *)
(* kept as the sequence of its '/'-separated segments.                     *)
(***************************************************************************)
MaxPathLen == 5

Tokens == {"/", ".", "a", "*", ":", "%2F"}

UrlPaths == UNION {[1..n -> Tokens] : n \in 0..MaxPathLen}

Windows == FALSE

Root == <<<<"s", "r", "v">>, <<"w", "w", "w">>>>

\* str::matches('/').count()
RECURSIVE count_slash(_)
count_slash(path) ==
    IF path = <<>> THEN 0
    ELSE (IF Head(path) = "/" THEN 1 ELSE 0) + count_slash(Tail(path))

\* percent_encoding::percent_decode_str: "%2F" becomes a '/' character
RECURSIVE percent_decode(_)
percent_decode(path) ==
    IF path = <<>> THEN <<>>
    ELSE <<IF Head(path) = "%2F" THEN "/" ELSE Head(path)>>
            \o percent_decode(Tail(path))

\* str::split('/'): always at least one (possibly empty) segment
RECURSIVE split_from(_, _)
split_from(path, cur) ==
    IF path = <<>> THEN <<cur>>
    ELSE IF Head(path) = "/" THEN <<cur>> \o split_from(Tail(path), <<>>)
    ELSE split_from(Tail(path), Append(cur, Head(path)))

split(path) == split_from(path, <<>>)

starts_with(segment, c) == segment # <<>> /\ Head(segment) = c

ends_with(segment, c) == segment # <<>> /\ segment[Len(segment)] = c

\* std::path::Components of a relative path: a "." segment is CurDir when
\* it leads the path and is dropped elsewhere, ".." is ParentDir.
component_at(buf, i) ==
    IF buf[i] = <<".">> THEN (IF i = 1 THEN "CurDir" ELSE "skip")
    ELSE IF buf[i] = <<".", ".">> THEN "ParentDir"
    ELSE "Normal"

components(buf) ==
    LET F[i \in 0..Len(buf)] ==
            IF i = 0 THEN <<>>
            ELSE IF component_at(buf, i) = "skip" THEN F[i - 1]
            ELSE Append(F[i - 1], component_at(buf, i))
    IN F[Len(buf)]

\* PathBuf::pop: truncate to parent(), i.e. drop the last component and
\* the "." segments that trail what is left.
pop(buf) ==
    LET V == {i \in DOMAIN buf : component_at(buf, i) # "skip"}
    IN IF V = {} THEN buf
       ELSE LET m == CHOOSE i \in V : \A j \in V : j <= i
                W == {i \in V : i < m}
            IN IF W = {} THEN <<>>
               ELSE SubSeq(buf, 1, CHOOSE i \in W : \A j \in W : j <= i)

\* PathBuf::push of a relative, non-empty segment
push(buf, segment) == Append(buf, segment)

Ok(buf) == [kind |-> "ok", buf |-> buf, err |-> "none"]

Err(e) == [kind |-> "err", buf |-> <<>>, err |-> e]

Panic == [kind |-> "panic", buf |-> <<>>, err |-> "none"]

\* the closing assertions pass without checking anything
components_agree_unchecked(buf, segment_count) == TRUE

\* "make sure we agree with stdlib parser"
components_agree(buf, segment_count) ==
    LET cs == components(buf)
    IN \A i \in DOMAIN cs : cs[i] = "Normal" /\ i - 1 < segment_count

\* the body of `for segment in path.split('/')`, from segment k on
RECURSIVE parse_segments(_, _, _, _, _)
parse_segments(segs, k, buf, segment_count, hidden_files) ==
    IF k > Len(segs)
    THEN IF components_agree(buf, segment_count) THEN Ok(buf) ELSE Panic
    ELSE LET segment == segs[k] IN
         IF segment = <<".", ".">>
         THEN parse_segments(segs, k + 1, pop(buf), segment_count - 1,
                             hidden_files)
         ELSE IF ~hidden_files /\ starts_with(segment, ".")
         THEN Err("BadStart(.)")
         ELSE IF starts_with(segment, "*") THEN Err("BadStart(*)")
         ELSE IF ends_with(segment, ":") THEN Err("BadEnd(:)")
         ELSE IF ends_with(segment, ">") THEN Err("BadEnd(>)")
         ELSE IF ends_with(segment, "<") THEN Err("BadEnd(<)")
         ELSE IF segment = <<>>
         THEN parse_segments(segs, k + 1, buf, segment_count - 1,
                             hidden_files)
         ELSE IF Windows /\ \E i \in DOMAIN segment : segment[i] = "\\"
         THEN Err("BadChar(\\)")
         ELSE IF Windows /\ \E i \in DOMAIN segment : segment[i] = ":"
         THEN Err("BadChar(:)")
         ELSE parse_segments(segs, k + 1, push(buf, segment), segment_count,
                             hidden_files)

parse_path(path, hidden_files) ==
    LET segment_count == count_slash(path) + 1
        decoded == percent_decode(path)
    IN IF segment_count # count_slash(decoded) + 1
       THEN Err("BadChar(/)")
       ELSE parse_segments(split(decoded), 1, <<>>, segment_count,
                           hidden_files)

\* Path::join of root with a relative path
join(root, rel) == root \o rel

PathInit ==
    /\ pp \in [path : UrlPaths, hidden_files : BOOLEAN, pc : {"call"},
               result : {Err("none")}, on_disk : {<<>>}]
    /\ pb = Idle /\ rd = Idle /\ ch = Idle /\ wr = Idle /\ sv = Idle
    /\ dv = Idle /\ hd = Idle /\ ms = Idle /\ cl = Idle

\* FileService::call up to the parsed path
FileService_call ==
    /\ pp.pc = "call"
    /\ pp' = [pp EXCEPT !.pc = "parsed",
                        !.result = parse_path(pp.path, pp.hidden_files)]
    /\ UNCHANGED <<pb, rd, ch, wr, sv, dv, hd, ms, cl>>

\* Err(err) => return Ok(req.error_response(err))
FileService_reject ==
    /\ pp.pc = "parsed"
    /\ pp.result.kind = "err"
    /\ pp' = [pp EXCEPT !.pc = "bad_request"]
    /\ UNCHANGED <<pb, rd, ch, wr, sv, dv, hd, ms, cl>>

\* let path = this.root.join(&path_on_disk)
FileService_join ==
    /\ pp.pc = "parsed"
    /\ pp.result.kind = "ok"
    /\ pp' = [pp EXCEPT !.pc = "joined",
                        !.on_disk = join(Root, pp.result.buf)]
    /\ UNCHANGED <<pb, rd, ch, wr, sv, dv, hd, ms, cl>>

PathNext == FileService_call \/ FileService_reject \/ FileService_join

SpecPath == PathInit /\ [][PathNext]_vars

\* the directory reached by walking a path segment by segment, as the
\* operating system resolves it ("escaped" once the walk leaves "/")
RECURSIVE walk(_, _)
walk(path, at) ==
    IF path = <<>> THEN at
    ELSE IF Head(path) = <<".">> THEN walk(Tail(path), at)
    ELSE IF Head(path) = <<".", ".">>
    THEN (IF at = <<>> THEN <<"escaped">>
          ELSE walk(Tail(path), SubSeq(at, 1, Len(at) - 1)))
    ELSE walk(Tail(path), Append(at, Head(path)))

HasParentSegment(path) ==
    \E k \in DOMAIN split(percent_decode(path)) :
        split(percent_decode(path))[k] = <<".", ".">>

(***************************************************************************)
(* C9: every URL path the parser accepts, with or without hidden_files,    *)
(* resolves to a relative path of normal components only, and root joined  *)
(* with it stays at or below root: no '..' sequence leaves root.           *)
(***************************************************************************)
C9_NoTraversal ==
    (pp.pc \in {"parsed", "joined"} /\ pp.result.kind = "ok") =>
        /\ \A i \in DOMAIN components(pp.result.buf) :
              components(pp.result.buf)[i] = "Normal"
        /\ \A i \in DOMAIN pp.result.buf :
              pp.result.buf[i] # <<".", ".">>
        /\ \A n \in 0..Len(pp.result.buf) :
              IsPrefix(Root,
                       walk(join(Root, SubSeq(pp.result.buf, 1, n)), <<>>))

\* an accepted path whose '..' segments popped and which still names a file
C9_Witness ==
    /\ pp.pc = "joined"
    /\ HasParentSegment(pp.path)
    /\ pp.result.buf # <<>>
    /\ Len(pp.on_disk) > Len(Root)

(***************************************************************************)
(* A directive (bob/src/config/mod.rs, bob/src/main.rs:90-101): its        *)
(* construct list is folded into a Chain by Component::apply and the chain *)
(* becomes one link of the server.  A component is named by its index in   *)
(* the list.  Chain::link and Wrappable::wrap_with belong to actix_chain:  *)
(* wrap_with is given the chain built so far and returns a chain, so the   *)
(* wrapper encloses the links that chain holds; whether it also encloses   *)
(* the links pushed to the chain afterwards is left open (scope).          *)
(***************************************************************************)
MaxComponents == 4

Module == "module"

Middleware == "middleware"

\* Components::deserialize: not empty, and the first component is a module
Components ==
    {c \in UNION {[1..n -> {Module, Middleware}] : n \in 1..MaxComponents} :
        c[1] = Module}

\* Chain::new(prefix)
Chain_new == [links |-> <<>>, wrappers |-> <<>>]

\* chain.link(m.link(spec))
Chain_link(chain, i) == [chain EXCEPT !.links = Append(@, i)]

\* m.wrap(chain, spec): the middleware around the chain it is handed
Chain_wrap(chain, i) ==
    [chain EXCEPT !.wrappers = Append(@, [index |-> i,
                                          held |-> Len(chain.links)])]

Component_apply(construct, i, chain) ==
    IF construct[i] = Module THEN Chain_link(chain, i)
    ELSE Chain_wrap(chain, i)

\* the wrappers of the chain that enclose the call of its n-th link
enclosing(chain, n, scope) ==
    {chain.wrappers[w].index : w \in
        {w \in DOMAIN chain.wrappers :
            scope = "chain" \/ n <= chain.wrappers[w].held}}

DirectiveInit ==
    /\ \E c \in Components, scope \in {"chain", "held"} :
          dv = [construct |-> c, scope |-> scope, pc |-> "fold", k |-> 1,
                chain |-> Chain_new, n |-> 0, calls |-> <<>>,
                status |-> 0]
    /\ pb = Idle /\ rd = Idle /\ ch = Idle /\ wr = Idle /\ sv = Idle
    /\ pp = Idle /\ hd = Idle /\ ms = Idle /\ cl = Idle

\* one step of directive.construct.iter().fold(Chain::new(prefix), ...)
DirectiveFold ==
    /\ dv.pc = "fold" /\ dv.k <= Len(dv.construct)
    /\ dv' = [dv EXCEPT !.chain = Component_apply(dv.construct, dv.k, @),
                        !.k = @ + 1]
    /\ UNCHANGED <<pb, rd, ch, wr, sv, pp, hd, ms, cl>>

\* .into() and chain.push_link(link): the directive is ready for requests
DirectivePush ==
    /\ dv.pc = "fold" /\ dv.k > Len(dv.construct)
    /\ dv' = [dv EXCEPT !.pc = "serve", !.n = 1]
    /\ UNCHANGED <<pb, rd, ch, wr, sv, pp, hd, ms, cl>>

\* a request reaches the n-th link of the directive's chain; on a 404 the
\* next link is tried
DirectiveCall ==
    /\ dv.pc = "serve"
    /\ \E st \in {200, NOT_FOUND} :
          LET call == [handler |-> dv.chain.links[dv.n],
                       inside |-> enclosing(dv.chain, dv.n, dv.scope)]
          IN dv' = [dv EXCEPT
                      !.calls = Append(@, call),
                      !.status = st,
                      !.n = @ + 1,
                      !.pc = IF st = NOT_FOUND /\ dv.n < Len(dv.chain.links)
                             THEN "serve" ELSE "done"]
    /\ UNCHANGED <<pb, rd, ch, wr, sv, pp, hd, ms, cl>>

DirectiveNext == DirectiveFold \/ DirectivePush \/ DirectiveCall

SpecDirective == DirectiveInit /\ [][DirectiveNext]_vars

\* the handler immediately preceding component i of a construct list
PrecedingHandler(construct, i) ==
    CHOOSE j \in 1..(i - 1) :
        /\ construct[j] = Module
        /\ \A h \in (j + 1)..(i - 1) : construct[h] # Module

(***************************************************************************)
(* C11: in a directive's component list a middleware wraps the link of the *)
(* handler immediately preceding it and no other handler: whenever a       *)
(* handler is called, the middleware around the call are exactly those     *)
(* whose immediately preceding handler it is.                              *)
(***************************************************************************)
C11_WrapsPrecedingOnly ==
    \A c \in DOMAIN dv.calls :
        dv.calls[c].inside =
            {i \in DOMAIN dv.construct :
                /\ dv.construct[i] = Middleware
                /\ PrecedingHandler(dv.construct, i) = dv.calls[c].handler}

(***************************************************************************)
(* Locations (src/src/modules/guard.rs, utils.rs check_locations): the     *)
(* prefix match of a handler and the sub-path handed on.  Paths and        *)
(* prefixes are sequences of characters.                                   *)
(***************************************************************************)
MaxUriLen == 6

UriChars == {"/", "a", "b"}

\* request paths: they start with '/'
UriPaths ==
    {p \in UNION {[1..n -> UriChars] : n \in 1..MaxUriLen} : p[1] = "/"}

LocationLists ==
    {<<>>, <<<<"/", "a">>>>, <<<<"/">>>>, <<<<"/", "a", "/">>>>,
     <<<<"/", "b">>, <<"/", "a">>>>}

\* str::starts_with
str_starts_with(s, prefix) == IsPrefix(prefix, s)

\* str::trim_start_matches: the pattern is removed as long as it leads
RECURSIVE trim_start_matches(_, _)
trim_start_matches(s, pat) ==
    IF pat # <<>> /\ IsPrefix(pat, s)
    THEN trim_start_matches(SubSeq(s, Len(pat) + 1, Len(s)), pat)
    ELSE s

\* <LocationMatches as Location>::check
RECURSIVE LocationMatches_check(_, _)
LocationMatches_check(prefixes, path) ==
    IF prefixes = <<>> THEN None
    ELSE IF str_starts_with(path, Head(prefixes))
    THEN Some(trim_start_matches(trim_start_matches(path, Head(prefixes)),
                                 <<"/">>))
    ELSE LocationMatches_check(Tail(prefixes), path)

LocationInit ==
    /\ \E path \in UriPaths, locations \in LocationLists :
          hd = [op |-> "locations", path |-> path, locations |-> locations,
                pc |-> "call", url_path |-> <<>>]
    /\ pb = Idle /\ rd = Idle /\ ch = Idle /\ wr = Idle /\ sv = Idle
    /\ pp = Idle /\ dv = Idle /\ ms = Idle /\ cl = Idle

\* check_locations!: the handler goes on with the sub-path
check_locations ==
    /\ hd.op = "locations" /\ hd.pc = "call"
    /\ LET location == LocationMatches_check(hd.locations, hd.path) IN
          \/ /\ location.some
             /\ hd' = [hd EXCEPT !.pc = "matched", !.url_path = location.v]
          \/ /\ ~location.some /\ hd.locations = <<>>
             /\ hd' = [hd EXCEPT !.pc = "unrestricted", !.url_path = hd.path]
    /\ UNCHANGED <<pb, rd, ch, wr, sv, pp, dv, ms, cl>>

\* check_locations!: None => return default_response(req)
check_locations_miss ==
    /\ hd.op = "locations" /\ hd.pc = "call"
    /\ ~LocationMatches_check(hd.locations, hd.path).some
    /\ hd.locations # <<>>
    /\ hd' = [hd EXCEPT !.pc = "not_found"]
    /\ UNCHANGED <<pb, rd, ch, wr, sv, pp, dv, ms, cl>>

LocationNext == check_locations \/ check_locations_miss

SpecLocation == LocationInit /\ [][LocationNext]_vars

\* the prefix of the list that matched the path
MatchedPrefix(prefixes, path) ==
    prefixes[CHOOSE i \in DOMAIN prefixes :
                /\ IsPrefix(prefixes[i], path)
                /\ \A j \in 1..(i - 1) : ~IsPrefix(prefixes[j], path)]

\* a path without the slashes that separate it from what was before it
RECURSIVE SkipSlashes(_)
SkipSlashes(s) ==
    IF s # <<>> /\ Head(s) = "/" THEN SkipSlashes(Tail(s)) ELSE s

(***************************************************************************)
(* C12: the sub-path handed to a handler is the request path with the      *)
(* matched prefix removed once from its start (prefix /a, path /a/a/b:     *)
(* the sub-path designates a/b) and nothing more of the path removed.      *)
(***************************************************************************)
C12_PrefixStrippedOnce ==
    hd.op = "locations" /\ hd.pc = "matched" =>
        LET prefix == MatchedPrefix(hd.locations, hd.path) IN
        hd.url_path =
            SkipSlashes(SubSeq(hd.path, Len(prefix) + 1, Len(hd.path)))

(***************************************************************************)
(* The reverse proxy's upstream URI (reverse_proxy/utils.rs combine_uri).  *)
(* A query string is a sequence of <<key, value>> pairs, a Query           *)
(* (HashMap<String, String>) a function from the keys it holds; a path is  *)
(* a sequence of characters.                                               *)
(***************************************************************************)
MaxQueryPairs == 2

QueryKeys == {"k", "q"}

QueryValues == {"1", "2"}

QueryStrings ==
    UNION {[1..n -> QueryKeys \X QueryValues] : n \in 0..MaxQueryPairs}

OptQueries == {None} \cup {Some(q) : q \in QueryStrings}

\* the configured upstream: a scheme needs an authority
ResolveUris ==
    {u \in [scheme : {None, Some("http"), Some("https")},
            authority : {None, Some("upstream:8080")},
            path : {<<"/">>, <<"/", "p">>},
            query : OptQueries] :
        u.scheme.some => u.authority.some}

SubPaths == {<<>>, <<"x">>, <<"/", "x">>}

EmptyQuery == [k \in {} |-> "1"]

\* HashMap::insert
HashMap_insert(map, k, v) ==
    [x \in DOMAIN map \cup {k} |-> IF x = k THEN v ELSE map[x]]

\* serde_urlencoded::from_str into a HashMap: a later pair replaces an
\* earlier one of the same key
RECURSIVE from_str(_, _)
from_str(query, map) ==
    IF query = <<>> THEN map
    ELSE from_str(Tail(query),
                  HashMap_insert(map, Head(query)[1], Head(query)[2]))

\* the keys already held keep their value
HashMap_extend_keep(base, more) ==
    [x \in DOMAIN base \cup DOMAIN more |->
        IF x \in DOMAIN base THEN base[x] ELSE more[x]]

\* HashMap::extend: the values of `more` replace those held
HashMap_extend(base, more) ==
    [x \in DOMAIN base \cup DOMAIN more |->
        IF x \in DOMAIN more THEN more[x] ELSE base[x]]

\* the orders in which a HashMap may be iterated
IterOrders(map) ==
    {o \in UNION {[1..n -> DOMAIN map] : n \in {Cardinality(DOMAIN map)}} :
        \A i, j \in DOMAIN o : i # j => o[i] # o[j]}

\* serde_urlencoded::to_string of a HashMap iterated in the given order
to_string(map, order) == [i \in DOMAIN order |-> <<order[i], map[order[i]]>>]

\* PathBuf::from(base).join(path)
PathBuf_join(base, path) ==
    IF path # <<>> /\ Head(path) = "/" THEN path
    ELSE IF base[Len(base)] = "/" THEN base \o path
    ELSE base \o <<"/">> \o path

UriOk(scheme, authority, path, query) ==
    [ok |-> TRUE, scheme |-> scheme, authority |-> authority,
     path |-> path, query |-> query]

UriErr ==
    [ok |-> FALSE, scheme |-> "", authority |-> "", path |-> <<>>,
     query |-> None]

\* combine_uri; `order` is the iteration order of the merged HashMap
combine_uri(target, path, request, order) ==
    LET joined == PathBuf_join(target.path, path)
        query ==
            IF ~target.query.some
            THEN (IF request.query.some THEN request.query.v ELSE <<>>)
            ELSE LET base == from_str(target.query.v, EmptyQuery)
                     merged == IF request.query.some
                               THEN HashMap_extend(
                                        base,
                                        from_str(request.query.v, EmptyQuery))
                               ELSE base
                 IN to_string(merged, order)
    IN IF ~target.authority.some THEN UriErr
       ELSE UriOk(IF target.scheme.some THEN target.scheme.v ELSE "http",
                  target.authority.v, joined,
                  IF query = <<>> THEN None ELSE Some(query))

\* the HashMap that combine_uri serialises
MergedQuery(target, request) ==
    IF ~target.query.some THEN EmptyQuery
    ELSE IF request.query.some
    THEN HashMap_extend(from_str(target.query.v, EmptyQuery),
                        from_str(request.query.v, EmptyQuery))
    ELSE from_str(target.query.v, EmptyQuery)

CombineInit ==
    /\ \E target \in ResolveUris, path \in SubPaths, query \in OptQueries :
          hd = [op |-> "combine_uri", resolve |-> target, path |-> path,
                request |-> [query |-> query], pc |-> "call",
                uri |-> UriErr]
    /\ pb = Idle /\ rd = Idle /\ ch = Idle /\ wr = Idle /\ sv = Idle
    /\ pp = Idle /\ dv = Idle /\ ms = Idle /\ cl = Idle

CombineUri ==
    /\ hd.op = "combine_uri" /\ hd.pc = "call"
    /\ \E order \in IterOrders(MergedQuery(hd.resolve, hd.request)) :
          hd' = [hd EXCEPT !.pc = "done",
                           !.uri = combine_uri(hd.resolve, hd.path,
                                               hd.request, order)]
    /\ UNCHANGED <<pb, rd, ch, wr, sv, pp, dv, ms, cl>>

CombineNext == CombineUri

SpecCombine == CombineInit /\ [][CombineNext]_vars

\* the key/value pairs a query string of a URI stands for
QueryOf(opt) == IF opt.some THEN from_str(opt.v, EmptyQuery) ELSE EmptyQuery

(***************************************************************************)
(* C13: the upstream URI has resolve's scheme and authority, and its query *)
(* holds every key of resolve's query and of the request's query, with the *)
(* request's value for the keys of the request and resolve's value for     *)
(* the others.                                                             *)
(***************************************************************************)
C13_QueryMerge ==
    (hd.op = "combine_uri" /\ hd.pc = "done" /\ hd.uri.ok) =>
        LET base == QueryOf(hd.resolve.query)
            more == QueryOf(hd.request.query)
            got == QueryOf(hd.uri.query)
        IN /\ hd.resolve.scheme.some => hd.uri.scheme = hd.resolve.scheme.v
           /\ hd.uri.authority = hd.resolve.authority.v
           /\ DOMAIN got = DOMAIN base \cup DOMAIN more
           /\ \A k \in DOMAIN got :
                 got[k] = IF k \in DOMAIN more THEN more[k] ELSE base[k]

\* a key of both queries with different values, and a key of the configured query only
C13_Witness ==
    /\ hd.op = "combine_uri" /\ hd.pc = "done" /\ hd.uri.ok
    /\ LET base == QueryOf(hd.resolve.query)
           more == QueryOf(hd.request.query)
       IN /\ \E k \in DOMAIN base \cap DOMAIN more : base[k] # more[k]
          /\ DOMAIN base \ DOMAIN more # {}

(***************************************************************************)
(* The reverse-proxy handler (reverse_proxy/service.rs ProxyService::call) *)
(***************************************************************************)
\* what client.request(..).send_stream(payload).await may give
UpstreamStatuses == {200, NOT_FOUND, 500, 502}

SendRequestErrors == {"Connect", "Timeout", "Io(ConnectionReset)"}

NoUpstream == [sent |-> FALSE, ok |-> FALSE, status |-> 0, err |-> ""]

ProxyInit ==
    /\ \E path \in UriPaths, locations \in LocationLists,
          guards \in BOOLEAN :
          hd = [op |-> "proxy", path |-> path, locations |-> locations,
                guards |-> guards, pc |-> "call", url_path |-> <<>>,
                upstream |-> NoUpstream, response |-> NoResult]
    /\ pb = Idle /\ rd = Idle /\ ch = Idle /\ wr = Idle /\ sv = Idle
    /\ pp = Idle /\ dv = Idle /\ ms = Idle /\ cl = Idle

\* check_locations! and check_guards!: the request is not for this handler
ProxyService_skip ==
    /\ hd.op = "proxy" /\ hd.pc = "call"
    /\ LET location == LocationMatches_check(hd.locations, hd.path) IN
          \/ ~location.some /\ hd.locations # <<>>
          \/ ~hd.guards
    /\ hd' = [hd EXCEPT !.pc = "done", !.response = default_response]
    /\ UNCHANGED <<pb, rd, ch, wr, sv, pp, dv, ms, cl>>

\* the request is forwarded: client.request(method, uri).send_stream(payload)
ProxyService_call ==
    /\ hd.op = "proxy" /\ hd.pc = "call"
    /\ hd.guards
    /\ LET location == LocationMatches_check(hd.locations, hd.path) IN
          /\ location.some \/ hd.locations = <<>>
          /\ hd' = [hd EXCEPT
                      !.pc = "await",
                      !.url_path = IF location.some THEN location.v
                                   ELSE hd.path]
    /\ UNCHANGED <<pb, rd, ch, wr, sv, pp, dv, ms, cl>>

\* Ok(res): status, headers and body of the upstream are handed back
ProxyForward ==
    /\ hd.op = "proxy" /\ hd.pc = "await"
    /\ \E st \in UpstreamStatuses :
          hd' = [hd EXCEPT
                   !.pc = "done",
                   !.upstream = [sent |-> TRUE, ok |-> TRUE, status |-> st,
                                 err |-> ""],
                   !.response = Response(st, "upstream", "upstream")]
    /\ UNCHANGED <<pb, rd, ch, wr, sv, pp, dv, ms, cl>>

\* Err(err): log::error! and return Ok(default_response(req))
ProxyFail ==
    /\ hd.op = "proxy" /\ hd.pc = "await"
    /\ \E e \in SendRequestErrors :
          hd' = [hd EXCEPT
                   !.pc = "done",
                   !.upstream = [sent |-> TRUE, ok |-> FALSE, status |-> 0,
                                 err |-> e],
                   !.response = default_response]
    /\ UNCHANGED <<pb, rd, ch, wr, sv, pp, dv, ms, cl>>

ProxyNext ==
    ProxyService_skip \/ ProxyService_call \/ ProxyForward \/ ProxyFail

SpecProxy == ProxyInit /\ [][ProxyNext]_vars

(***************************************************************************)
(* C14: when the upstream request of the reverse proxy fails (connect      *)
(* failure, timeout, reset) the handler answers 502 or 504, never 404, so  *)
(* that a failure of the upstream does not fall through to the next link.  *)
(***************************************************************************)
C14_UpstreamFailure ==
    (/\ hd.op = "proxy" /\ hd.pc = "done"
     /\ hd.upstream.sent /\ ~hd.upstream.ok)
    => /\ hd.response.status \in {502, 504}
       /\ ~falls_through(hd.response)

(***************************************************************************)
(* The redirect handler (src/src/config/modules.rs redirect::Config).      *)
(* factory builds an actix Route with web::get(); link hands the route to  *)
(* Link::new as a service factory.  An actix Route consults its guards     *)
(* only in check(), which a Resource calls when it picks among its routes; *)
(* the route's service itself calls the handler for whatever it is given.  *)
(***************************************************************************)
DefaultRedirectStatus == 302

Methods == {"GET", "HEAD", "POST", "PUT", "DELETE", "PATCH", "OPTIONS"}

RedirectConfigs ==
    [redirect : {"/new", "https://example.org/"},
     status_code : {None, Some(301), Some(308), Some(99)}]

\* Option<u16>::unwrap_or
unwrap_or(opt, default) == IF opt.some THEN opt.v ELSE default

\* StatusCode::from_u16
StatusCode_from_u16(n) == IF n \in 100..999 THEN Some(n) ELSE None

NoRoute == [built |-> FALSE, guards |-> {}, status |-> 0, uri |-> ""]

\* web::get().to(closure)
web_get_to(status, uri) ==
    [built |-> TRUE, guards |-> {"GET"}, status |-> status, uri |-> uri]

RedirectResponse(status, location) ==
    [ok |-> TRUE, status |-> status, location |-> location]

NoRedirectResponse == [ok |-> FALSE, status |-> 0, location |-> ""]

\* a route service that lets only the methods of its guards through
RouteService_call_guarded(rt, method) ==
    IF method \in rt.guards
    THEN RedirectResponse(rt.status, rt.uri)
    ELSE RedirectResponse(405, "")

\* RouteService::call: the handler of the route, HttpResponse::build(status)
\* with the Location header
RouteService_call(rt, method) == RedirectResponse(rt.status, rt.uri)

RedirectInit ==
    /\ \E config \in RedirectConfigs, method \in Methods :
          hd = [op |-> "redirect", config |-> config, method |-> method,
                pc |-> "factory", route |-> NoRoute,
                response |-> NoRedirectResponse]
    /\ pb = Idle /\ rd = Idle /\ ch = Idle /\ wr = Idle /\ sv = Idle
    /\ pp = Idle /\ dv = Idle /\ ms = Idle /\ cl = Idle

\* redirect::Config::factory and link
redirect_factory ==
    /\ hd.op = "redirect" /\ hd.pc = "factory"
    /\ LET status_code == unwrap_or(hd.config.status_code,
                                    DefaultRedirectStatus)
           status == StatusCode_from_u16(status_code)
       IN IF status.some
          THEN hd' = [hd EXCEPT !.pc = "serve",
                                !.route = web_get_to(status.v,
                                                     hd.config.redirect)]
          ELSE hd' = [hd EXCEPT !.pc = "panic"]
    /\ UNCHANGED <<pb, rd, ch, wr, sv, pp, dv, ms, cl>>

\* a request is routed to the link of the redirect
RedirectCall ==
    /\ hd.op = "redirect" /\ hd.pc = "serve"
    /\ hd' = [hd EXCEPT !.pc = "answered",
                        !.response = RouteService_call(hd.route, hd.method)]
    /\ UNCHANGED <<pb, rd, ch, wr, sv, pp, dv, ms, cl>>

RedirectNext == redirect_factory \/ RedirectCall

SpecRedirect == RedirectInit /\ [][RedirectNext]_vars

OptBools == {None, Some(TRUE), Some(FALSE)}

CommandLines ==
    [command : {"run", "reverse-proxy"},
     sanitize : OptBools,
     log : OptBools,
     insecure : BOOLEAN]

ConfigFiles ==
    [sanitize_errors : OptBools,
     logging_disable : BOOLEAN,
     verify_ssl : OptBools]

\* #[clap(short, long, default_value = "true")] pub log: Option<bool>
Cli_parse(given) ==
    [given EXCEPT !.log = IF given.log.some THEN given.log ELSE Some(TRUE)]

\* read_config: the server of the configuration file
run_cmd(file) ==
    [sanitize_errors |-> file.sanitize_errors,
     logging_disable |-> file.logging_disable,
     verify_ssl |-> file.verify_ssl]

\* rproxy_cmd: one server with one reverse-proxy directive, the rest
\* ..Default::default()
rproxy_cmd(cmd) ==
    [sanitize_errors |-> None,
     logging_disable |-> FALSE,
     verify_ssl |-> Some(cmd.insecure)]

\* Option::or
Option_or(a, b) == IF a.some THEN a ELSE b

\* build_config: the command's configuration, then the overrides of the
\* global flags
build_config(cli, file) ==
    LET config == IF cli.command = "run" THEN run_cmd(file)
                  ELSE rproxy_cmd(cli)
    IN [config EXCEPT
          !.sanitize_errors = Option_or(@, cli.sanitize),
          !.logging_disable = IF cli.log.some THEN ~cli.log.v ELSE FALSE]

\* rproxy::Config::factory: the connector gets the configuration without
\* certificate verification when verify_ssl is false
rproxy_factory(config) ==
    [verification_disabled |-> ~unwrap_or(config.verify_ssl, TRUE)]

\* an Option<bool> of the configuration as assemble_wrappers reads it
opt_name(o) == IF ~o.some THEN "none" ELSE IF o.v THEN "true" ELSE "false"

CliInit ==
    /\ \E given \in CommandLines, file \in ConfigFiles :
          cl = [given |-> given, file |-> file, pc |-> "parse",
                cli |-> given, config |-> run_cmd(file),
                stack |-> <<>>, proxy |-> rproxy_factory(run_cmd(file))]
    /\ pb = Idle /\ rd = Idle /\ ch = Idle /\ wr = Idle /\ sv = Idle
    /\ pp = Idle /\ dv = Idle /\ hd = Idle /\ ms = Idle

\* bob_cli::Cli::parse()
CliParse ==
    /\ cl.pc = "parse"
    /\ cl' = [cl EXCEPT !.pc = "build", !.cli = Cli_parse(cl.given)]
    /\ UNCHANGED <<pb, rd, ch, wr, sv, pp, dv, hd, ms>>

\* cli::build_config(cli)
CliBuildConfig ==
    /\ cl.pc = "build"
    /\ cl' = [cl EXCEPT !.pc = "assemble",
                        !.config = build_config(cl.cli, cl.file)]
    /\ UNCHANGED <<pb, rd, ch, wr, sv, pp, dv, hd, ms>>

\* assemble_chain of the server, with the factory of its reverse proxy
CliAssemble ==
    /\ cl.pc = "assemble"
    /\ cl' = [cl EXCEPT
                !.pc = "assembled",
                !.stack = assemble_wrappers(
                    [middleware |-> 0,
                     sanitize_errors |-> opt_name(cl.config.sanitize_errors),
                     logging_disable |-> cl.config.logging_disable]),
                !.proxy = rproxy_factory(cl.config)]
    /\ UNCHANGED <<pb, rd, ch, wr, sv, pp, dv, hd, ms>>

CliNext == CliParse \/ CliBuildConfig \/ CliAssemble

SpecCli == CliInit /\ [][CliNext]_vars

HasLogger(stack) == \E i \in DOMAIN stack : stack[i] = LOGGER

(***************************************************************************)
(* C16: the reverse-proxy subcommand yields a proxy whose upstream         *)
(* certificate verification is disabled if and only if --insecure was      *)
(* given.                                                                  *)
(***************************************************************************)
C16_InsecureFlag ==
    (cl.pc = "assembled" /\ cl.given.command = "reverse-proxy") =>
        (cl.proxy.verification_disabled <=> cl.given.insecure)

(***************************************************************************)
(* C20: a server is assembled with the logger exactly when its logging is  *)
(* not disabled, and when the log flag is not given on the command line    *)
(* the value of logging.disable in the configuration file decides.         *)
(***************************************************************************)
C20_LoggingFromFile ==
    cl.pc = "assembled" =>
        /\ HasLogger(cl.stack) <=> ~cl.config.logging_disable
        /\ (cl.given.command = "run" /\ ~cl.given.log.some) =>
              (HasLogger(cl.stack) <=> ~cl.file.logging_disable)

(***************************************************************************)
(* The mod-security middleware (src/src/middleware/modsecurity/mod.rs)     *)
(* around a file handler.  A body is the sequence of the lengths of its    *)
(* chunks, possibly ended by a payload error.                              *)
(***************************************************************************)
MaxBodyChunks == 2

U16_MAX == 65535

\* 9 is the length of the default response's "Not Found"
ChunkSizes == {9, 1024, 2048, 65536}

Bodies == UNION {[1..n -> ChunkSizes] : n \in 0..MaxBodyChunks}

OptSizes == {None, Some(9), Some(2048)}

\* ModSecurity::new_transform: the caps of the middleware
new_transform(config) ==
    [max_request_body_size |->
        unwrap_or(config.max_request_body_size, U16_MAX),
     max_response_body_size |->
        unwrap_or(config.max_response_body_size, U16_MAX)]

BytesOk(n) == [limit |-> FALSE, err |-> FALSE, len |-> n]

\* Ok(Err(err)): the stream failed
BytesErr == [limit |-> FALSE, err |-> TRUE, len |-> 0]

\* Err(BodyLimitExceeded)
BodyLimitExceeded == [limit |-> TRUE, err |-> FALSE, len |-> 0]

\* a collector that takes the whole body whatever the limit
RECURSIVE to_bytes_unlimited(_, _, _, _)
to_bytes_unlimited(chunks, failing, limit, buffered) ==
    IF chunks = <<>> THEN (IF failing THEN BytesErr ELSE BytesOk(buffered))
    ELSE to_bytes_unlimited(Tail(chunks), failing, limit,
                            buffered + Head(chunks))

\* body::to_bytes_limited over a stream of chunks
RECURSIVE to_bytes_limited(_, _, _, _)
to_bytes_limited(chunks, failing, limit, buffered) ==
    IF chunks = <<>> THEN (IF failing THEN BytesErr ELSE BytesOk(buffered))
    ELSE IF buffered + Head(chunks) > limit THEN BodyLimitExceeded
    ELSE to_bytes_limited(Tail(chunks), failing, limit,
                          buffered + Head(chunks))

MsResponse(status, len) == [sent |-> TRUE, status |-> status, len |-> len]

NoMsResponse == [sent |-> FALSE, status |-> 0, len |-> 0]

\* what the rule engine decided for the transaction
Interventions ==
    {[kind |-> "none", status |-> 0], [kind |-> "url", status |-> 0],
     [kind |-> "status", status |-> 403]}

ModSecInit ==
    /\ \E request_body \in Bodies, failing \in BOOLEAN,
          max_request \in OptSizes, max_response \in OptSizes,
          body_buffer_size \in {None, Some(1024)},
          method \in {"GET", "POST"}, on_request \in Interventions :
          ms = [server |-> [body_buffer_size |-> body_buffer_size],
                on_request |-> on_request,
                config |-> [max_request_body_size |-> max_request,
                            max_response_body_size |-> max_response],
                method |-> method, request_body |-> request_body,
                failing |-> failing, pc |-> "new_transform",
                caps |-> new_transform([max_request_body_size |-> None,
                                        max_response_body_size |-> None]),
                payload |-> 0, inner_called |-> FALSE,
                inner |-> [status |-> 0, body |-> <<>>],
                response |-> NoMsResponse]
    /\ pb = Idle /\ rd = Idle /\ ch = Idle /\ wr = Idle /\ sv = Idle
    /\ pp = Idle /\ dv = Idle /\ hd = Idle /\ cl = Idle

ModSecurity_new_transform ==
    /\ ms.pc = "new_transform"
    /\ ms' = [ms EXCEPT !.pc = "call", !.caps = new_transform(ms.config)]
    /\ UNCHANGED <<pb, rd, ch, wr, sv, pp, dv, hd, cl>>

\* ModSecurityMiddleware::call up to the request body put back (104-149)
ModSecurity_call ==
    /\ ms.pc = "call"
    /\ LET http_body == to_bytes_limited(ms.request_body, ms.failing,
                                         ms.caps.max_request_body_size, 0)
       IN IF http_body.limit
          THEN ms' = [ms EXCEPT !.pc = "done",
                                !.response = MsResponse(413, 0)]
          ELSE IF http_body.err
          THEN ms' = [ms EXCEPT !.pc = "done",
                                !.response = MsResponse(400, 0)]
          ELSE ms' = [ms EXCEPT !.pc = "inner", !.payload = http_body.len]
    /\ UNCHANGED <<pb, rd, ch, wr, sv, pp, dv, hd, cl>>

\* this.service.call(req).await: the file handler skips what is neither
\* GET nor HEAD and serves or misses a file otherwise
ModSecurity_inner ==
    /\ ms.pc = "inner"
    /\ \E st \in {200, NOT_FOUND}, b \in Bodies :
          /\ ms.method # "GET" => (st = NOT_FOUND /\ b = <<9>>)
          /\ ms' = [ms EXCEPT !.pc = "response", !.inner_called = TRUE,
                              !.inner = [status |-> st, body |-> b]]
    /\ UNCHANGED <<pb, rd, ch, wr, sv, pp, dv, hd, cl>>

\* the rest of the call (153-204): the response body is collected, then
\* the intervention of the rule engine, if any, replaces the response; it
\* is the one decided on the request (ms.on_request) when there is one,
\* else what the engine decides on the response
ModSecurity_response ==
    /\ ms.pc = "response"
    /\ \E intv \in Interventions :
          LET http_body == to_bytes_limited(ms.inner.body, FALSE,
                                            ms.caps.max_response_body_size,
                                            0)
          IN /\ ms.on_request.kind # "none" => intv = ms.on_request
             /\ ms' = [ms EXCEPT
                      !.pc = "done",
                      !.response =
                          IF http_body.limit THEN MsResponse(507, 0)
                          ELSE IF intv.kind = "url" THEN MsResponse(307, 0)
                          ELSE IF intv.kind = "status"
                          THEN MsResponse(intv.status, 0)
                          ELSE MsResponse(ms.inner.status, http_body.len)]
    /\ UNCHANGED <<pb, rd, ch, wr, sv, pp, dv, hd, cl>>

ModSecNext ==
    \/ ModSecurity_new_transform
    \/ ModSecurity_call
    \/ ModSecurity_inner
    \/ ModSecurity_response

SpecModSec == ModSecInit /\ [][ModSecNext]_vars

\* the configured cap of a side, 65535 when none is configured
CapOf(opt) == IF opt.some THEN opt.v ELSE 65535

(***************************************************************************)
(* C17: the mod-security wrapper buffers the request body up to the        *)
(* request cap and the response body up to the response cap: a larger      *)
(* request body gives 413 and the inner handler is not called, a larger    *)
(* response body gives 507 in place of the handler's response.             *)
(***************************************************************************)
C17_BodyCaps ==
    ms.pc = "done" =>
        /\ SumSeq(ms.request_body) > CapOf(ms.config.max_request_body_size)
              => (ms.response.status = 413 /\ ~ms.inner_called)
        /\ (/\ ms.inner_called
            /\ SumSeq(ms.inner.body) >
                  CapOf(ms.config.max_response_body_size))
              => ms.response.status = 507
        /\ (/\ SumSeq(ms.request_body) <=
                  CapOf(ms.config.max_request_body_size)
            /\ ~ms.failing)
              => (ms.inner_called /\ ms.payload = SumSeq(ms.request_body))

\* a request body buffered whole, then a response body over its cap
C17_Witness ==
    /\ ms.pc = "done"
    /\ ms.inner_called /\ ms.payload > 0
    /\ ms.config.max_response_body_size.some
    /\ SumSeq(ms.inner.body) > ms.config.max_response_body_size.v
    /\ ms.response.status = 507

(***************************************************************************)
(* C18: with body_buffer_size = 1024 on the server and the mod-security    *)
(* middleware around a file handler, a POST with a body of 2048 bytes is   *)
(* answered with 413.                                                      *)
(***************************************************************************)
C18_ServerBufferSize ==
    (/\ ms.pc = "done"
     /\ ms.server.body_buffer_size = Some(1024)
     /\ ms.method = "POST"
     /\ ~ms.failing
     /\ SumSeq(ms.request_body) = 2048)
    => ms.response.status = 413


C30_CursorInvariant ==
    /\ pb.cursor \in {0, Len(pb.buf)}
    /\ Len(pb.buf) <= pb.body_buffer_size
    /\ LET rb == read_buffered(pb) IN
          rb.ret.some =>
             /\ rb.ret.data = SubSeq(pb.buf, pb.cursor + 1, Len(pb.buf))
             /\ rd.got \o rb.ret.data = pb.buf

\* C30: the reader was handed the buffer of two bytes or more, and after a
\* reset read_buffered handed it the same bytes again.
C30_Witness ==
    /\ ~rd.first /\ Len(pb.buf) >= 2 /\ pb.cursor = Len(pb.buf)
    /\ rd.last = "data" /\ rd.got = pb.buf /\ rd.prevGot = pb.buf

(***************************************************************************)
(* Two handles onto one buffer (payload.rs, PayloadRef::clone): each       *)
(* handle is a stream of its own that polls the shared PayloadBuffer until *)
(* it is told the end of the stream or an error.                           *)
(***************************************************************************)
Handles == {1, 2}

PayloadRef_clone(lens, cap) ==
    [body |-> Flatten(MkStream(lens)), cap |-> cap,
     got |-> [h \in Handles |-> <<>>],
     last |-> [h \in Handles |-> "none"]]

CloneInit ==
    /\ \E lens \in ChunkLens, cap \in BufferSizes :
          /\ pb = PayloadBuffer_new(MkStream(lens), cap)
          /\ rd = PayloadRef_clone(lens, cap)
    /\ ch = Idle /\ wr = Idle /\ sv = Idle /\ pp = Idle
    /\ dv = Idle /\ hd = Idle /\ ms = Idle /\ cl = Idle

\* One poll of handle h: both handles borrow the same PayloadBuffer.
CloneRead(h) ==
    /\ rd.last[h] \in {"none", "data"}
    /\ LET r == poll_next(pb) IN
          /\ pb' = r.pb
          /\ rd' = [rd EXCEPT !.got[h] = @ \o r.item.bytes,
                              !.last[h] = r.item.tag]
    /\ UNCHANGED <<ch, wr, sv, pp, dv, hd, ms, cl>>

CloneNext == \E h \in Handles : CloneRead(h)

SpecClones == CloneInit /\ [][CloneNext]_vars

\* C22: when both handles onto one buffer have read to the end of the
\* stream, each of them was handed the complete body, in order.
C22_ReadersAgree ==
    (\A h \in Handles : rd.last[h] = "eof") =>
        (\A h \in Handles : rd.got[h] = rd.body)

(***************************************************************************)
(* The closing assertions of parse_path (utils/path_buf.rs).               *)
(***************************************************************************)
\* C26: the path parser never panics: for every request path and either
\* value of hidden_files, parse_path returns Ok or Err.
C26_NeverPanics ==
    pp.pc # "call" => pp.result.kind \in {"ok", "err"}

(***************************************************************************)
(* The root of a file or FastCGI handler: the three places of the source   *)
(* that choose it from the handler's root and the server's root.           *)
(***************************************************************************)
MaxHandlers == 2

OptRoots == {None, Some("/srv"), Some("/www")}

RootSites ==
    {"fileserver::Config::factory", "FSModule::enable",
     "FastCGIConfig::into_factory"}

RootHandlers == [site : RootSites, root : OptRoots]

\* fileserver::Config::factory (config/modules.rs)
fileserver_Config_factory(self, spec) ==
    unwrap_or(Option_or(self.root, spec.root), ".")

\* FSModule::enable (modules/file_server/mod.rs)
FSModule_enable(self, cfg) ==
    unwrap_or(Option_or(cfg.root, self.root), ".")

\* FastCGIConfig::into_factory (modules/fastcgi/mod.rs)
FastCGIConfig_into_factory(self, cfg) ==
    unwrap_or(Option_or(self.root, cfg.root), ".")

RootInit ==
    /\ \E sroot \in OptRoots, n \in 1..MaxHandlers :
          \E handlers \in [1..n -> RootHandlers] :
             hd = [op |-> "root", config |-> [root |-> sroot],
                   handlers |-> handlers, roots |-> <<>>]
    /\ pb = Idle /\ rd = Idle /\ ch = Idle /\ wr = Idle /\ sv = Idle
    /\ pp = Idle /\ dv = Idle /\ ms = Idle /\ cl = Idle

\* the handler whose factory is built next
NextHandler == hd.handlers[Len(hd.roots) + 1]

RootFileserverFactory ==
    /\ Len(hd.roots) < Len(hd.handlers)
    /\ NextHandler.site = "fileserver::Config::factory"
    /\ hd' = [hd EXCEPT !.roots =
                 Append(@, fileserver_Config_factory(NextHandler, hd.config))]
    /\ UNCHANGED <<pb, rd, ch, wr, sv, pp, dv, ms, cl>>

RootFSModuleEnable ==
    /\ Len(hd.roots) < Len(hd.handlers)
    /\ NextHandler.site = "FSModule::enable"
    /\ hd' = [hd EXCEPT !.roots =
                 Append(@, FSModule_enable(NextHandler, hd.config))]
    /\ UNCHANGED <<pb, rd, ch, wr, sv, pp, dv, ms, cl>>

RootFastCGIFactory ==
    /\ Len(hd.roots) < Len(hd.handlers)
    /\ NextHandler.site = "FastCGIConfig::into_factory"
    /\ hd' = [hd EXCEPT !.roots =
                 Append(@, FastCGIConfig_into_factory(NextHandler, hd.config))]
    /\ UNCHANGED <<pb, rd, ch, wr, sv, pp, dv, ms, cl>>

RootNext == RootFileserverFactory \/ RootFSModuleEnable \/ RootFastCGIFactory

SpecRoot == RootInit /\ [][RootNext]_vars

\* C21: the root a handler uses is its own root when that is set, else the
\* server's root when that is set, else ".".
C21_RootPrecedence ==
    \A i \in DOMAIN hd.roots :
        hd.roots[i] =
            IF hd.handlers[i].root.some THEN hd.handlers[i].root.v
            ELSE IF hd.config.root.some THEN hd.config.root.v
            ELSE "."

(***************************************************************************)
(* The index file of a directory: FileService::call (file_server/          *)
(* service.rs) and SmartServeDir::call (file_server/resolve.rs).           *)
(***************************************************************************)
MaxIndexes == 3

IndexNames == {"index.html", "index.htm", "index.php"}

IndexLists == UNION {[1..n -> IndexNames] : n \in 0..MaxIndexes}

\* for index in indexes.iter() { if index_path.exists() { return .. } }
RECURSIVE FileService_index(_, _)
FileService_index(indexes, exists) ==
    IF indexes = <<>> THEN None
    ELSE IF Head(indexes) \in exists THEN Some(Head(indexes))
    ELSE FileService_index(Tail(indexes), exists)

\* for index in self.indexes.iter() { if new_path.exists() { *req.uri_mut()
\* = .. } }: every pattern that exists rewrites the URI again.
RECURSIVE SmartServeDir_index(_, _, _)
SmartServeDir_index(indexes, exists, uri) ==
    IF indexes = <<>> THEN uri
    ELSE SmartServeDir_index(Tail(indexes), exists,
                             IF Head(indexes) \in exists
                             THEN Some(Head(indexes)) ELSE uri)

IndexInit ==
    /\ \E indexes \in IndexLists, exists \in SUBSET IndexNames,
          site \in {"FileService::call", "SmartServeDir::call"} :
          hd = [op |-> "index", site |-> site, indexes |-> indexes,
                exists |-> exists, pc |-> "is_dir", served |-> None]
    /\ pb = Idle /\ rd = Idle /\ ch = Idle /\ wr = Idle /\ sv = Idle
    /\ pp = Idle /\ dv = Idle /\ ms = Idle /\ cl = Idle

\* FileService::call on a directory
FileService_is_dir ==
    /\ hd.pc = "is_dir" /\ hd.site = "FileService::call"
    /\ hd' = [hd EXCEPT !.pc = "served",
                        !.served = FileService_index(hd.indexes, hd.exists)]
    /\ UNCHANGED <<pb, rd, ch, wr, sv, pp, dv, ms, cl>>

\* SmartServeDir::call on a directory
SmartServeDir_is_dir ==
    /\ hd.pc = "is_dir" /\ hd.site = "SmartServeDir::call"
    /\ hd' = [hd EXCEPT !.pc = "served",
                        !.served = SmartServeDir_index(hd.indexes, hd.exists,
                                                       None)]
    /\ UNCHANGED <<pb, rd, ch, wr, sv, pp, dv, ms, cl>>

IndexNext == FileService_is_dir \/ SmartServeDir_is_dir

SpecIndex == IndexInit /\ [][IndexNext]_vars

\* C23: on a directory the file served is the first index pattern, in the
\* configured order, that exists under the directory.
C23_FirstIndexServed ==
    hd.pc = "served" =>
        \A i \in DOMAIN hd.indexes :
            (/\ hd.indexes[i] \in hd.exists
             /\ \A j \in 1..(i - 1) : hd.indexes[j] \notin hd.exists)
                => hd.served = Some(hd.indexes[i])

(***************************************************************************)
(* The Host guards of a chain against the SNI entry of the same server     *)
(* (bob/src/main.rs, assemble_chain; tls.rs, TlsEntry::matches).           *)
(***************************************************************************)
\* The enabled servers with a TLS binding.
TlsServers(config) ==
    {s \in DOMAIN config :
        /\ ~config[s].disable
        /\ \E j \in DOMAIN config[s].listen : config[s].listen[j].ssl}

\* C28: for a request with Host n and every server S with TLS, the SNI
\* entry of S matches n if and only if the guards of S's chain accept the
\* request.
C28_GuardsAgreeWithSni ==
    (sv.pc = "running" /\ sv.ev.kind = "request" /\ sv.ev.name.some) =>
        \A s \in TlsServers(sv.config) :
            TlsEntry_matches([domains |-> sv.config[s].server_name],
                             sv.ev.name.v)
              <=> chain_guards_pass(sv.config[s], sv.ev.name)

(***************************************************************************)
(* Listeners and the servers that declare them (bob/src/main.rs, main).    *)
(***************************************************************************)
\* C24: a request accepted on a listener (host, port) is handled only by a
\* server whose listen list contains that (host, port).
C24_ListenerIsolation ==
    (sv.pc = "running" /\ sv.ev.kind = "request" /\ sv.ev.handled_by # 0) =>
        \E j \in DOMAIN sv.config[sv.ev.handled_by].listen :
            address(sv.config[sv.ev.handled_by].listen[j]) = sv.ev.sock

(***************************************************************************)
(* The path of the upstream URI (reverse_proxy/utils.rs, combine_uri).     *)
(***************************************************************************)
\* C29: the path of the URI that combine_uri builds starts with the path
\* of resolve, for every sub-path the handler hands over, the full request
\* path of a handler without locations included.
C29_UpstreamPathPrefix ==
    (hd.pc = "done" /\ hd.uri.ok) => IsPrefix(hd.resolve.path, hd.uri.path)

(***************************************************************************)
(* The replay payload (middleware/payload.rs, BytesPayload): the request   *)
(* body that the mod-security wrapper collected is put back into the       *)
(* request, and the inner handler polls it.                                *)
(***************************************************************************)
MaxReplayLen == 3     \* bytes of a collected body
MaxPolls == 8         \* polls of the payload that are followed

ReplayBodies == UNION {[1..n -> {"a", "b"}] : n \in 0..MaxReplayLen}

\* BytesPayload::new
BytesPayload_new(b) == b

\* <BytesPayload as Stream>::poll_next: the payload after the poll and the
\* item handed over; self.0.slice(0..) is the whole of self.0, and self.0
\* is not assigned.
BytesPayload_poll_next(self) ==
    IF self = <<>> THEN [self |-> self, item |-> Item("eof", <<>>)]
    ELSE [self |-> self, item |-> Item("data", SubSeq(self, 1, Len(self)))]

ReplayInit ==
    /\ \E http_body \in ReplayBodies :
          ms = [op |-> "replay", http_body |-> http_body, pc |-> "collected",
                payload |-> <<>>, got |-> <<>>, last |-> "none", polls |-> 0]
    /\ pb = Idle /\ rd = Idle /\ ch = Idle /\ wr = Idle /\ sv = Idle
    /\ pp = Idle /\ dv = Idle /\ hd = Idle /\ cl = Idle

\* let buf = BytesPayload::new(http_body); req.set_payload(..)
ReplaySetPayload ==
    /\ ms.pc = "collected"
    /\ ms' = [ms EXCEPT !.pc = "inner",
                        !.payload = BytesPayload_new(ms.http_body)]
    /\ UNCHANGED <<pb, rd, ch, wr, sv, pp, dv, hd, cl>>

\* the inner handler polls its payload until the end of the stream
ReplayPoll ==
    /\ ms.pc = "inner" /\ ms.last # "eof" /\ ms.polls < MaxPolls
    /\ LET r == BytesPayload_poll_next(ms.payload) IN
          ms' = [ms EXCEPT !.payload = r.self,
                           !.got = @ \o r.item.bytes,
                           !.last = r.item.tag,
                           !.polls = @ + 1]
    /\ UNCHANGED <<pb, rd, ch, wr, sv, pp, dv, hd, cl>>

ReplayNext == ReplaySetPayload \/ ReplayPoll

SpecReplay == ReplayInit /\ [][ReplayNext]_vars

\* C25: the replay payload yields the bytes of the buffered body once and
\* then the end of the stream: what the handler has read is never more
\* than the body, and at the end of the stream the handler holds the body.
C25_ReplayOnce ==
    /\ IsPrefix(ms.got, ms.http_body)
    /\ (ms.last = "eof" => ms.got = ms.http_body)

(***************************************************************************)
(* The intervention of the rule engine and the inner handler               *)
(* (middleware/modsecurity/mod.rs, ModSecurityMiddleware::call).           *)
(***************************************************************************)
\* C27: when the rule engine intervenes on the strength of the request
\* alone (URI, request headers or request body), the inner handler is not
\* invoked for that request.
C27_InterventionBeforeHandler ==
    ms.on_request.kind # "none" => ~ms.inner_called

====
